---- MODULE Spec2Model ----
(***************************************************************************)
(* Timelapse daemon (src/src/timelapse.py): the capture loop of            *)
(* TimelapseDaemon.run, the finalizer threads of finalize_day_async and    *)
(* the files under BASE_DIR they read and write.                           *)
(*                                                                         *)
(* A calendar date is a number of Days; the directory of a date,           *)
(* IMAGES_DIR / date.isoformat(), is named by the same number, and so is   *)
(* the daily video VIDEOS_DIR / "<date>.mp4".  A video file is a record    *)
(* [st, c]: st is "absent", "partial" (opened and truncated by a writer    *)
(* that has not finished) or "ok"; c is the sequence of the days whose     *)
(* daily videos it holds, in playing order.                                *)
(***************************************************************************)
EXTENDS Naturals, Sequences, FiniteSets

\* ------------------------------------------------------------ bounds
NumDays == 3          \* calendar dates 1..NumDays
MaxFrames == 2        \* cv2.imwrite calls made in one run of the daemon
MaxDateChanges == 2   \* times the wall-clock date changes
MaxLateChanges == 1   \* further date changes, in LateSpec only
MaxRestarts == 1      \* times the process is started again, in FullSpec only

Days == 1..NumDays

\* ------------------------------------------------------------ configuration
\* DEFAULTS, lines 37-39, read from the environment at import.  A token and
\* a chat id are the empty string (the default) or set.  File sizes are
\* counted in units of the ceiling MAX_TELEGRAM_MB: a file is as large as
\* the ceiling allows, or larger.
Tokens == {"", "token"}
ChatIds == {"", "chat"}
MAX_TELEGRAM_MB == 1
Sizes == {MAX_TELEGRAM_MB, MAX_TELEGRAM_MB + 1}

VARIABLES
    today,          \* datetime.date.today(): the wall-clock date
    dateChanges,    \* how often today has changed (bounded)
    clockMonotone,  \* history: today has never moved to an earlier date
    pc,             \* position of the thread running TimelapseDaemon.run
    running,        \* self.running
    current_day,    \* self.current_day
    current_dir,    \* self.current_dir
    seq,            \* self.seq
    frames,         \* frames[d]: numbers n with IMAGES_DIR/d/<n>.jpg stored
    imwrites,       \* how often cv2.imwrite has been called (bounded)
    stored,         \* history: frames stored since the current bucket began
    writeFailed,    \* history: an imwrite failed since the bucket began
    superseded,     \* history: the dates of the buckets a rollover replaced
    jobs,           \* the finalizer threads, in dispatch order
    daily,          \* daily[d]: state of VIDEOS_DIR/<d>.mp4
    master,         \* VIDEOS_DIR/master.mp4
    masterTs,       \* VIDEOS_DIR/master.ts
    dayTs,          \* days d with VIDEOS_DIR/<d>.ts present
    temp_out,       \* VIDEOS_DIR/master.new.mp4
    mergedDays,     \* history: days whose merge_daily_into_master returned
    bot_token,      \* DEFAULTS["TELEGRAM_BOT_TOKEN"]
    chat_id,        \* DEFAULTS["TELEGRAM_CHAT_ID"]
    cap,            \* self.cap: "none", "held" (a VideoCapture) or "released"
    main,           \* the main thread: "polling", "join", or "exited"
    restarts,       \* how often the process has been started again (bounded)
    lateTicks       \* history: time.sleep(1) calls of the paced wait that
                    \* ended on a date other than current_day's and have
                    \* not been followed by the date test of line 174

loopVars == <<pc, running, current_day, current_dir, seq, cap, lateTicks>>
storeVars == <<frames, imwrites, stored, writeFailed>>
clockVars == <<today, dateChanges, clockMonotone>>
videoVars == <<daily, master, masterTs, dayTs, temp_out, mergedDays>>
procVars == <<bot_token, chat_id, main, restarts>>
vars == <<today, dateChanges, clockMonotone, pc, running, current_day,
          current_dir, seq, frames, imwrites, stored, writeFailed,
          superseded, jobs, daily, master, masterTs, dayTs, temp_out,
          mergedDays, bot_token, chat_id, cap, main, restarts, lateTicks>>

\* __main__, lines 209-217: after t.start() the main thread serves the
\* command interface in run_polling when a token is set, and else waits in
\* t.join().
MainThread == IF bot_token # "" THEN "polling" ELSE "join"

\* The process has not ended; its threads run.
Alive == main # "exited"

Absent == [st |-> "absent", c |-> <<>>]
Partial == [st |-> "partial", c |-> <<>>]
Video(c) == [st |-> "ok", c |-> c]

\* ------------------------------------------------------------ construction
\* TimelapseDaemon.__init__ on a fresh BASE_DIR, with the notifier configured
\* (a token and a chat id are set); dates are counted from the date of
\* construction.  Every step a job takes without a token or a chat id (a
\* delivery that is skipped) has the effect of a step it can take with both
\* (a delivery that is sent); InitEnv, below, is the construction in any
\* environment.
Init ==
    /\ today = 1
    /\ dateChanges = 0
    /\ clockMonotone = TRUE
    /\ pc = "start"
    /\ running = FALSE
    /\ current_day = today
    /\ current_dir = today
    /\ seq = 1
    /\ frames = [d \in Days |-> {}]
    /\ imwrites = 0
    /\ stored = 0
    /\ writeFailed = FALSE
    /\ superseded = <<>>
    /\ jobs = <<>>
    /\ daily = [d \in Days |-> "absent"]
    /\ master = Absent
    /\ masterTs = Absent
    /\ dayTs = {}
    /\ temp_out = Absent
    /\ mergedDays = {}
    /\ bot_token = "token"
    /\ chat_id = "chat"
    /\ cap = "none"
    /\ main = MainThread
    /\ restarts = 0
    /\ lateTicks = 0

\* ------------------------------------------------------------ wall clock
\* The date read by datetime.date.today() changes to any other date.
DateChange(d) ==
    /\ d # today
    /\ dateChanges < MaxDateChanges
    /\ today' = d
    /\ dateChanges' = dateChanges + 1
    /\ clockMonotone' = (clockMonotone /\ d > today)
    /\ lateTicks' = IF d = current_day THEN 0 ELSE lateTicks
    /\ UNCHANGED <<procVars, pc, running, current_day, current_dir, seq, cap,
                   storeVars, superseded, jobs, videoVars>>

\* ------------------------------------------------------------ capture loop
\* run, lines 168-170, open_cam succeeding: the loop is entered.
StartOk ==
    /\ Alive
    /\ pc = "start"
    /\ running' = TRUE
    /\ cap' = "held"
    /\ pc' = "check"
    /\ UNCHANGED <<procVars, clockVars, current_day, current_dir, seq,
                   lateTicks, storeVars, superseded, jobs, videoVars>>

\* run, lines 168-169, open_cam raising RuntimeError: the call is made before
\* the try statement, so the exception leaves run without its finally clause.
StartFail ==
    /\ Alive
    /\ pc = "start"
    /\ running' = TRUE
    /\ cap' = "held"
    /\ pc' = "dead"
    /\ UNCHANGED <<procVars, clockVars, current_day, current_dir, seq,
                   lateTicks, storeVars, superseded, jobs, videoVars>>

\* The thread finalize_day_async creates for (day, dirpath): job() has not
\* started.  before is history: while the job is inside
\* merge_daily_into_master, the master file as the call found it.
NewJob(day, dirpath) ==
    [day |-> day, dir |-> dirpath, pc |-> "make_video", before |-> Absent]

\* finalize_day_async: one more thread, after those already started.
FinalizeDayAsync(day, dirpath) == Append(jobs, NewJob(day, dirpath))

\* line 174: the date read at line 173 differs from the bucket's.
Rolled == today # current_day

\* self.seq when line 180 is reached: reset by line 179 after a rollover.
\* The two history counters of the bucket start again with it.
SeqAt180 == IF Rolled THEN 1 ELSE seq
StoredAt180 == IF Rolled THEN 0 ELSE stored
WriteFailedAt180 == IF Rolled THEN FALSE ELSE writeFailed

\* RolloverCheck with the finalizer called for the date just read and its
\* directory instead of the bucket held so far.
RolloverCheckNewDate ==
    /\ Alive
    /\ pc = "check"
    /\ running
    /\ jobs' = IF Rolled THEN FinalizeDayAsync(today, today) ELSE jobs
    /\ superseded' = IF Rolled THEN Append(superseded, current_day)
                               ELSE superseded
    /\ current_day' = today
    /\ current_dir' = today
    /\ lateTicks' = 0

\* run, lines 172-179: the while test, the date comparison and, when the
\* date differs, the dispatch of the finalizer for the bucket held so far and
\* the swap to the bucket of the date read (its directory is created).
RolloverCheck ==
    /\ Alive
    /\ pc = "check"
    /\ running
    /\ jobs' = IF Rolled THEN FinalizeDayAsync(current_day, current_dir)
                         ELSE jobs
    /\ superseded' = IF Rolled THEN Append(superseded, current_day)
                               ELSE superseded
    /\ current_day' = today
    /\ current_dir' = today
    /\ lateTicks' = 0

\* self.seq after line 151, reached whatever cv2.imwrite returned.
SeqAfterImwrite(written) == SeqAt180 + 1

\* One pass of lines 172-180 in which cap.read() returns no frame
\* (capture_frame, lines 144-147).
CaptureNoFrame ==
    /\ RolloverCheck
    /\ seq' = SeqAt180
    /\ stored' = StoredAt180
    /\ writeFailed' = WriteFailedAt180
    /\ pc' = "sleep"
    /\ UNCHANGED <<procVars, clockVars, running, cap, frames, imwrites,
                   videoVars>>

\* One pass of lines 172-180 in which a frame is read and cv2.imwrite stores
\* it as <seq>.jpg in current_dir (capture_frame, lines 144-151).
CaptureStored ==
    /\ RolloverCheck
    /\ imwrites < MaxFrames
    /\ imwrites' = imwrites + 1
    /\ frames' = [frames EXCEPT ![current_dir'] = @ \cup {SeqAt180}]
    /\ stored' = StoredAt180 + 1
    /\ writeFailed' = WriteFailedAt180
    /\ seq' = SeqAfterImwrite(TRUE)
    /\ pc' = "sleep"
    /\ UNCHANGED <<procVars, clockVars, running, cap, videoVars>>

\* One pass of lines 172-180 in which a frame is read and cv2.imwrite cannot
\* write the file (disk full, permission): it returns False, and the result
\* is not looked at (capture_frame, lines 148-151).
CaptureWriteFail ==
    /\ RolloverCheck
    /\ imwrites < MaxFrames
    /\ imwrites' = imwrites + 1
    /\ stored' = StoredAt180
    /\ writeFailed' = TRUE
    /\ seq' = SeqAfterImwrite(FALSE)
    /\ pc' = "sleep"
    /\ UNCHANGED <<procVars, clockVars, running, cap, frames, videoVars>>

\* SleepTick without the date test of line 183: the wait lasts the whole
\* interval.
SleepTickWholeInterval ==
    /\ Alive
    /\ pc = "sleep"
    /\ \/ pc' = "check"
       \/ pc' = "sleep"
    /\ lateTicks' = IF today # current_day THEN lateTicks + 1 ELSE 0
    /\ UNCHANGED <<procVars, clockVars, running, current_day, current_dir,
                   seq, cap, storeVars, superseded, jobs, videoVars>>

\* run, lines 181-184: one time.sleep(1) of the paced wait and the date test
\* after it.  The wait ends when the date differs or when this was the last
\* of the self.interval iterations; the interval is any number >= 1, so an
\* iteration on an unchanged date is the last one or not.
SleepTick ==
    /\ Alive
    /\ pc = "sleep"
    /\ \/ pc' = "check"
       \/ today = current_day /\ pc' = "sleep"
    /\ lateTicks' = IF today # current_day THEN lateTicks + 1 ELSE 0
    /\ UNCHANGED <<procVars, clockVars, running, current_day, current_dir,
                   seq, cap, storeVars, superseded, jobs, videoVars>>

\* ------------------------------------------------------------ finalizer job
\* Thread j of finalize_day_async moves to position p.
Goto(j, p) == [jobs EXCEPT ![j].pc = p]

\* lines 163-164: an exception of a step of job() reaches the except clause,
\* which logs it; job() ends.
Raise(j) == [jobs EXCEPT ![j].pc = "failed", ![j].before = Absent]

\* Thread j, of a process that has not ended, is at position p.
At(j, p) == Alive /\ jobs[j].pc = p

\* MakeVideoOk with the bucket read from the daemon (self.current_day,
\* self.current_dir) when the job runs, instead of the arguments of the call.
MakeVideoOkCurrentBucket(j) ==
    /\ At(j, "make_video")
    /\ 1 \in frames[current_dir]
    /\ daily' = [daily EXCEPT ![current_day] = "ok"]
    /\ jobs' = Goto(j, "send_daily")
    /\ UNCHANGED <<procVars, clockVars, loopVars, storeVars, superseded,
                   master, masterTs, dayTs, temp_out, mergedDays>>

\* make_video_from_images, lines 55-68: ffmpeg -y writes <day>.mp4 from the
\* frames of dirpath, numbered from 000001.jpg; it has no input without it.
MakeVideoOk(j) ==
    /\ At(j, "make_video")
    /\ 1 \in frames[jobs[j].dir]
    /\ daily' = [daily EXCEPT ![jobs[j].day] = "ok"]
    /\ jobs' = Goto(j, "send_daily")
    /\ UNCHANGED <<procVars, clockVars, loopVars, storeVars, superseded,
                   master, masterTs, dayTs, temp_out, mergedDays>>

\* make_video_from_images: ffmpeg exits non-zero before it has opened its
\* output (no 000001.jpg, or any other error); check=True raises.
MakeVideoFail(j) ==
    /\ At(j, "make_video")
    /\ jobs' = Raise(j)
    /\ UNCHANGED <<procVars, clockVars, loopVars, storeVars, superseded,
                   videoVars>>

\* (SendFileTelegramNoCeiling, below, is SendFileTelegram without the test
\* of the size at line 110.)
\* send_file_telegram, lines 103-116, as a function of the configuration and
\* the file's size: the ways the call can end.  "skipped" is a return at line
\* 108 or 112, before Bot is built; "sent" is the return after send_video;
\* "raised" is an exception of Bot or send_video, which nothing in
\* send_file_telegram catches.
SendFileTelegramNoCeiling(filesize_mb) ==
    IF bot_token = "" \/ chat_id = "" THEN {"skipped"}
    ELSE {"sent", "raised"}

SendFileTelegram(filesize_mb) ==
    IF bot_token = "" \/ chat_id = "" THEN {"skipped"}
    ELSE IF filesize_mb > MAX_TELEGRAM_MB THEN {"skipped"}
    ELSE {"sent", "raised"}

\* line 159: send_file_telegram for the daily video, which stat finds to be
\* of size filesize_mb, returns without calling the transport (not
\* configured, or the file is too large).
SendDailySkip(j, filesize_mb) ==
    /\ At(j, "send_daily")
    /\ "skipped" \in SendFileTelegram(filesize_mb)
    /\ jobs' = Goto(j, "merge")
    /\ UNCHANGED <<procVars, clockVars, loopVars, storeVars, superseded,
                   videoVars>>

\* line 159: send_file_telegram for the daily video sends it and returns.
SendDailyOk(j, filesize_mb) ==
    /\ At(j, "send_daily")
    /\ "sent" \in SendFileTelegram(filesize_mb)
    /\ jobs' = Goto(j, "merge")
    /\ UNCHANGED <<procVars, clockVars, loopVars, storeVars, superseded,
                   videoVars>>

\* SendDailyFail with the exception handled by stopping the daemon.
SendDailyFailStopsDaemon(j, filesize_mb) ==
    /\ At(j, "send_daily")
    /\ "raised" \in SendFileTelegram(filesize_mb)
    /\ jobs' = Raise(j)
    /\ running' = FALSE
    /\ UNCHANGED <<procVars, clockVars, pc, current_day, current_dir, seq,
                   cap, lateTicks, storeVars, superseded, videoVars>>

\* line 159: Bot or send_video raises in send_file_telegram for the daily
\* video; the exception leaves the try block of job().
SendDailyFail(j, filesize_mb) ==
    /\ At(j, "send_daily")
    /\ "raised" \in SendFileTelegram(filesize_mb)
    /\ jobs' = Raise(j)
    /\ UNCHANGED <<procVars, clockVars, loopVars, storeVars, superseded,
                   videoVars>>

\* merge_daily_into_master, line 92: the test of master_path.exists().
MergeTest(j) ==
    /\ At(j, "merge")
    /\ jobs' = [jobs EXCEPT ![j].pc = IF master.st = "absent" THEN "cp"
                                                               ELSE "ts_master",
                            ![j].before = master]
    /\ UNCHANGED <<procVars, clockVars, loopVars, storeVars, superseded,
                   videoVars>>

\* line 93: cp opens master.mp4 for writing, creating or truncating it.
CpBegin(j) ==
    /\ At(j, "cp")
    /\ master' = Partial
    /\ jobs' = Goto(j, "cp_run")
    /\ UNCHANGED <<procVars, clockVars, loopVars, storeVars, superseded,
                   daily, masterTs, dayTs, temp_out, mergedDays>>

\* lines 93-94: cp has copied the whole of <day>.mp4; the merge returns.
CpEnd(j) ==
    /\ At(j, "cp_run")
    /\ master' = Video(<<jobs[j].day>>)
    /\ mergedDays' = mergedDays \cup {jobs[j].day}
    /\ jobs' = [jobs EXCEPT ![j].pc = "send_master", ![j].before = Absent]
    /\ UNCHANGED <<procVars, clockVars, loopVars, storeVars, superseded,
                   daily, masterTs, dayTs, temp_out>>

\* CpFail with the exception swallowed: the job goes on to deliver master.
CpFailStillSends(j) ==
    /\ At(j, "cp_run")
    /\ jobs' = [jobs EXCEPT ![j].pc = "send_master", ![j].before = Absent]
    /\ UNCHANGED <<procVars, clockVars, loopVars, storeVars, superseded,
                   videoVars>>

\* line 93: cp exits non-zero part way (disk full); check=True raises.
CpFail(j) ==
    /\ At(j, "cp_run")
    /\ jobs' = Raise(j)
    /\ UNCHANGED <<procVars, clockVars, loopVars, storeVars, superseded,
                   videoVars>>

\* concat_videos_fast, lines 75-80, first input: ffmpeg converts master.mp4
\* to master.ts; a master that is not a complete video cannot be converted.
TsMasterOk(j) ==
    /\ At(j, "ts_master")
    /\ master.st = "ok"
    /\ masterTs' = master
    /\ jobs' = Goto(j, "ts_day")
    /\ UNCHANGED <<procVars, clockVars, loopVars, storeVars, superseded,
                   daily, master, dayTs, temp_out, mergedDays>>

\* lines 75-79 and 86-89: the first conversion fails; ts_files is empty.
TsMasterFail(j) ==
    /\ At(j, "ts_master")
    /\ jobs' = Raise(j)
    /\ UNCHANGED <<procVars, clockVars, loopVars, storeVars, superseded,
                   videoVars>>

\* lines 75-80, second input: ffmpeg converts <day>.mp4 to <day>.ts.
TsDayOk(j) ==
    /\ At(j, "ts_day")
    /\ daily[jobs[j].day] = "ok"
    /\ dayTs' = dayTs \cup {jobs[j].day}
    /\ jobs' = Goto(j, "join")
    /\ UNCHANGED <<procVars, clockVars, loopVars, storeVars, superseded,
                   daily, master, masterTs, temp_out, mergedDays>>

\* lines 75-79 and 86-89: the second conversion fails; finally removes
\* master.ts, the one entry of ts_files.
TsDayFail(j) ==
    /\ At(j, "ts_day")
    /\ masterTs' = Absent
    /\ jobs' = Raise(j)
    /\ UNCHANGED <<procVars, clockVars, loopVars, storeVars, superseded,
                   daily, master, dayTs, temp_out, mergedDays>>

\* What line 83 writes: the concat: protocol joins master.ts and <day>.ts.
Joined(day) == Video(Append(masterTs.c, day))

\* lines 81-85 and 95-96: the join of the two .ts files into outpath, which
\* is temp_out, succeeds.
JoinOk(j) ==
    /\ At(j, "join")
    /\ masterTs.st = "ok"
    /\ jobs[j].day \in dayTs
    /\ temp_out' = Joined(jobs[j].day)
    /\ jobs' = Goto(j, "cleanup")
    /\ UNCHANGED <<procVars, clockVars, loopVars, storeVars, superseded,
                   daily, master, masterTs, dayTs, mergedDays>>

\* lines 81-89: the join fails (an input is missing, or ffmpeg exits
\* non-zero); finally removes both .ts files; the exception leaves the merge.
JoinFail(j) ==
    /\ At(j, "join")
    /\ masterTs' = Absent
    /\ dayTs' = dayTs \ {jobs[j].day}
    /\ jobs' = Raise(j)
    /\ UNCHANGED <<procVars, clockVars, loopVars, storeVars, superseded,
                   daily, master, temp_out, mergedDays>>

\* lines 86-89 after a successful join: finally removes both .ts files.
Cleanup(j) ==
    /\ At(j, "cleanup")
    /\ masterTs' = Absent
    /\ dayTs' = dayTs \ {jobs[j].day}
    /\ jobs' = Goto(j, "replace")
    /\ UNCHANGED <<procVars, clockVars, loopVars, storeVars, superseded,
                   daily, master, temp_out, mergedDays>>

\* lines 97-98: os.replace renames temp_out to master and the merge returns;
\* when temp_out is gone (another job has renamed it) os.replace raises.
Replace(j) ==
    /\ At(j, "replace")
    /\ IF temp_out.st = "absent"
         THEN /\ jobs' = Raise(j)
              /\ UNCHANGED <<master, temp_out, mergedDays>>
         ELSE /\ master' = temp_out
              /\ temp_out' = Absent
              /\ mergedDays' = mergedDays \cup {jobs[j].day}
              /\ jobs' = [jobs EXCEPT ![j].pc = "send_master",
                                      ![j].before = Absent]
    /\ UNCHANGED <<procVars, clockVars, loopVars, storeVars, superseded,
                   daily, masterTs, dayTs>>

\* line 162: send_file_telegram for master returns without calling the
\* transport; job() ends.
SendMasterSkip(j, filesize_mb) ==
    /\ At(j, "send_master")
    /\ "skipped" \in SendFileTelegram(filesize_mb)
    /\ jobs' = Goto(j, "done")
    /\ UNCHANGED <<procVars, clockVars, loopVars, storeVars, superseded,
                   videoVars>>

\* line 162: send_file_telegram for master sends it and returns; job() ends.
SendMasterOk(j, filesize_mb) ==
    /\ At(j, "send_master")
    /\ "sent" \in SendFileTelegram(filesize_mb)
    /\ jobs' = Goto(j, "done")
    /\ UNCHANGED <<procVars, clockVars, loopVars, storeVars, superseded,
                   videoVars>>

\* line 162: Bot or send_video raises; the except clause logs it.
SendMasterFail(j, filesize_mb) ==
    /\ At(j, "send_master")
    /\ "raised" \in SendFileTelegram(filesize_mb)
    /\ jobs' = Raise(j)
    /\ UNCHANGED <<procVars, clockVars, loopVars, storeVars, superseded,
                   videoVars>>

\* A step of the process: of the capture loop or of a finalizer thread.
ProgramStep ==
    \/ StartOk
    \/ StartFail
    \/ CaptureNoFrame
    \/ CaptureStored
    \/ CaptureWriteFail
    \/ SleepTick
    \/ \E j \in 1..Len(jobs) : MakeVideoOk(j)
    \/ \E j \in 1..Len(jobs) : MakeVideoFail(j)
    \/ \E j \in 1..Len(jobs) : \E mb \in Sizes : SendDailySkip(j, mb)
    \/ \E j \in 1..Len(jobs) : \E mb \in Sizes : SendDailyOk(j, mb)
    \/ \E j \in 1..Len(jobs) : \E mb \in Sizes : SendDailyFail(j, mb)
    \/ \E j \in 1..Len(jobs) : MergeTest(j)
    \/ \E j \in 1..Len(jobs) : CpBegin(j)
    \/ \E j \in 1..Len(jobs) : CpEnd(j)
    \/ \E j \in 1..Len(jobs) : CpFail(j)
    \/ \E j \in 1..Len(jobs) : TsMasterOk(j)
    \/ \E j \in 1..Len(jobs) : TsMasterFail(j)
    \/ \E j \in 1..Len(jobs) : TsDayOk(j)
    \/ \E j \in 1..Len(jobs) : TsDayFail(j)
    \/ \E j \in 1..Len(jobs) : JoinOk(j)
    \/ \E j \in 1..Len(jobs) : JoinFail(j)
    \/ \E j \in 1..Len(jobs) : Cleanup(j)
    \/ \E j \in 1..Len(jobs) : Replace(j)
    \/ \E j \in 1..Len(jobs) : \E mb \in Sizes : SendMasterSkip(j, mb)
    \/ \E j \in 1..Len(jobs) : \E mb \in Sizes : SendMasterOk(j, mb)
    \/ \E j \in 1..Len(jobs) : \E mb \in Sizes : SendMasterFail(j, mb)

Next ==
    \/ \E d \in Days : DateChange(d)
    \/ ProgramStep

Spec == Init /\ [][Next]_vars

\* The daemon under a calendar that only advances: the date changes to a
\* later date.
NextForward ==
    \/ \E d \in Days : d > today /\ DateChange(d)
    \/ ProgramStep

ForwardSpec == Init /\ [][NextForward]_vars

\* ------------------------------------------------------------ environment
\* Construction in any environment: the token and the chat id set or not.
InitEnv ==
    /\ today = 1
    /\ dateChanges = 0
    /\ clockMonotone = TRUE
    /\ pc = "start"
    /\ running = FALSE
    /\ current_day = today
    /\ current_dir = today
    /\ seq = 1
    /\ frames = [d \in Days |-> {}]
    /\ imwrites = 0
    /\ stored = 0
    /\ writeFailed = FALSE
    /\ superseded = <<>>
    /\ jobs = <<>>
    /\ daily = [d \in Days |-> "absent"]
    /\ master = Absent
    /\ masterTs = Absent
    /\ dayTs = {}
    /\ temp_out = Absent
    /\ mergedDays = {}
    /\ bot_token \in Tokens
    /\ chat_id \in ChatIds
    /\ cap = "none"
    /\ main = MainThread
    /\ restarts = 0
    /\ lateTicks = 0

EnvSpec == InitEnv /\ [][Next]_vars

ForwardEnvSpec == InitEnv /\ [][NextForward]_vars

\* ------------------------------------------------------------ process
\* The date changes again after the MaxDateChanges changes of DateChange.
LateDateChange(d) ==
    /\ d # today
    /\ dateChanges >= MaxDateChanges
    /\ dateChanges < MaxDateChanges + MaxLateChanges
    /\ today' = d
    /\ dateChanges' = dateChanges + 1
    /\ clockMonotone' = (clockMonotone /\ d > today)
    /\ lateTicks' = IF d = current_day THEN 0 ELSE lateTicks
    /\ UNCHANGED <<procVars, pc, running, current_day, current_dir, seq, cap,
                   storeVars, superseded, jobs, videoVars>>

\* run, lines 187-189: the finally clause, reached by an exception that
\* leaves the while loop.
Finally ==
    /\ running' = FALSE
    /\ cap' = "released"
    /\ pc' = "stopped"

\* run, line 175, and finalize_day_async, line 165: Thread.start() raises
\* RuntimeError (no thread can be started).  No clause of the try statement
\* catches it: the finally clause runs and run() ends.
SpawnFail ==
    /\ Alive
    /\ pc = "check"
    /\ running
    /\ Rolled
    /\ Finally
    /\ UNCHANGED <<procVars, clockVars, current_day, current_dir, seq,
                   lateTicks, storeVars, superseded, jobs, videoVars>>

\* run, lines 175-178: the finalizer is dispatched, the new date and path are
\* assigned, and mkdir raises OSError (disk full, read-only): line 179 is
\* not reached, the finally clause runs and run() ends.
MkdirFail ==
    /\ RolloverCheck
    /\ Rolled
    /\ Finally
    /\ stored' = 0
    /\ writeFailed' = FALSE
    /\ UNCHANGED <<procVars, clockVars, seq, frames, imwrites, videoVars>>

\* A signal (SIGINT, Ctrl+C) ends the process.  Python raises
\* KeyboardInterrupt in the main thread alone, in t.join() (line 217) or
\* ending run_polling (line 215); run() executes in the thread t of line 209,
\* where its except clause of line 185 never sees it.  The main thread ends,
\* and the interpreter exits without resuming its daemon threads (t, line
\* 209, and the finalizers, line 165): none of them executes another
\* statement, the finally clause of run() included.
Cancel ==
    /\ Alive
    /\ main' = "exited"
    /\ UNCHANGED <<bot_token, chat_id, restarts, clockVars, loopVars,
                   storeVars, superseded, jobs, videoVars>>

\* line 217: t.join() returns once run() has ended, by the exception of
\* open_cam or after its finally clause; the main thread ends and with it
\* the process, the finalizer threads (daemon threads) included.
JoinReturns ==
    /\ main = "join"
    /\ pc \in {"dead", "stopped"}
    /\ main' = "exited"
    /\ UNCHANGED <<bot_token, chat_id, restarts, clockVars, loopVars,
                   storeVars, superseded, jobs, videoVars>>

\* lines 207-217 and __init__, lines 122-131, in a new process after the
\* former one has ended: a new TimelapseDaemon on the date of the day, with
\* the files the former process left and none of its threads.
Restart ==
    /\ main = "exited"
    /\ restarts < MaxRestarts
    /\ restarts' = restarts + 1
    /\ main' = MainThread
    /\ cap' = "none"
    /\ seq' = 1
    /\ running' = FALSE
    /\ current_day' = today
    /\ current_dir' = today
    /\ pc' = "start"
    /\ lateTicks' = 0
    /\ jobs' = <<>>
    /\ superseded' = <<>>
    /\ stored' = 0
    /\ writeFailed' = FALSE
    /\ UNCHANGED <<bot_token, chat_id, clockVars, frames, imwrites, videoVars>>

NextFull ==
    \/ Next
    \/ SpawnFail
    \/ MkdirFail
    \/ Cancel
    \/ JoinReturns
    \/ Restart

FullSpec == InitEnv /\ [][NextFull]_vars

\* The daemon of Spec under a clock that changes MaxLateChanges more times.
NextLate ==
    \/ Next
    \/ \E d \in Days : LateDateChange(d)

LateSpec == Init /\ [][NextLate]_vars

\* ------------------------------------------------------------ the claims
JobIds == 1..Len(jobs)

\* Job j is inside merge_daily_into_master: it has tested master_path.exists()
\* and has neither returned nor raised.
InMerge(j) ==
    jobs[j].pc \in {"cp", "cp_run", "ts_master", "ts_day", "join", "cleanup",
                    "replace"}

\* The days of S in ascending order.
Ascending(S) ==
    CHOOSE s \in [1..Cardinality(S) -> S] :
        \A a, b \in 1..Cardinality(S) : a < b => s[a] < s[b]

\* C1: the master-merge sections of two finalizer jobs for different days
\* never overlap: while one job is between its test of master's existence and
\* the end of its copy or replace, no other job is inside its own merge.
\* Stated of the runs in which the date has never moved backward.
C1_MergeSectionsNeverOverlap ==
    clockMonotone =>
        \A i, k \in JobIds :
            (i # k /\ jobs[i].day # jobs[k].day)
                => ~(InMerge(i) /\ InMerge(k))

\* C2: whenever no merge is in progress, master holds the daily videos of
\* exactly the days whose merge has completed, each once, in ascending date
\* order (and does not exist when there is no such day).  Stated of the
\* states in which master is absent or a complete file (C4 is about the
\* others) and the date has never moved backward.
C2_MasterIsChronologicalConcat ==
    (/\ clockMonotone
     /\ \A j \in JobIds : ~InMerge(j)
     /\ master.st # "partial") =>
        master = IF mergedDays = {} THEN Absent
                                    ELSE Video(Ascending(mergedDays))

\* C3: when the concatenation of a merge fails (a conversion to an
\* intermediate file, or the join), master is, as the call ends, the file it
\* was when the call began.  Stated of the runs in which the date has never
\* moved backward.
C3_FailedConcatLeavesMaster ==
    [][\A j \in JobIds :
          (/\ clockMonotone
           /\ jobs[j].pc \in {"ts_master", "ts_day", "join"}
           /\ jobs'[j].pc = "failed")
          => master' = jobs[j].before]_vars

\* C4: a reader of the master path finds no file or a complete video, never a
\* partially written one, the first merge (master absent) included.
C4_MasterNeverPartial == master.st # "partial"

\* C5: in a bucket in which every capture attempt so far produced a frame or
\* failed at the device read, the bucket's directory holds exactly the files
\* 1..N, N the number of attempts that produced a frame, and the next
\* sequence number is N + 1.
C5_BucketHoldsFramesOneToN ==
    ~writeFailed =>
        /\ frames[current_dir] = 1..stored
        /\ seq = stored + 1

\* C6: a capture whose write to storage fails does not advance the sequence
\* number: the next number is one more than the number of frames stored in
\* the bucket, and the numbers stored in its directory have no gap.
C6_WriteFailureKeepsSeq ==
    /\ seq = stored + 1
    /\ \A n \in frames[current_dir] : 1..n \subseteq frames[current_dir]

\* This step of the loop stored a frame file (in current_dir', under the
\* number seq' - 1).
FrameStored == imwrites' = imwrites + 1 /\ stored' = StoredAt180 + 1

\* C7: no frame is written into the directory of a bucket that has been
\* handed to the Day Finalizer, and the first frame written after a rollover
\* goes into the directory of the new date under sequence number 1.  Stated
\* of the buckets in which no write has failed; C6 is about the others.
C7_FrozenBucketAndFreshStart ==
    [][(FrameStored /\ ~writeFailed') =>
          /\ \A j \in 1..Len(jobs') : jobs'[j].dir # current_dir'
          /\ (superseded' # <<>> /\ stored' = 1) =>
                 (current_dir' = today /\ seq' - 1 = 1)]_vars

\* C8: under a wall-clock date that never decreases, the jobs dispatched are,
\* one per rollover and in order, those of the superseded buckets (their date
\* and their directory), in strictly ascending date order; so no date is
\* dispatched twice, and none on which the daemon held no bucket.
C8_OneJobPerRolloverAscending ==
    clockMonotone =>
        /\ Len(jobs) = Len(superseded)
        /\ \A j \in JobIds :
               jobs[j].day = superseded[j] /\ jobs[j].dir = superseded[j]
        /\ \A i, k \in JobIds : i < k => jobs[i].day < jobs[k].day

\* C8, its case: the date went 1, 2, 3 and two jobs were dispatched.
C8_Witness ==
    /\ clockMonotone
    /\ Len(jobs) = 2
    /\ jobs[1].day = 1
    /\ jobs[2].day = 2
    /\ current_day = 3

\* A step of a finalizer job: a job moved, and none was dispatched.
JobStep == jobs' # jobs /\ Len(jobs') = Len(jobs)

\* The capture loop can take a step.
LoopEnabled ==
    ENABLED (CaptureNoFrame \/ CaptureStored \/ CaptureWriteFail \/ SleepTick)

\* C9: no step of a finalizer job, a failing one included, changes the
\* capture loop's state (date, directory, sequence number, running flag,
\* position), and the loop, once in its cycle, can always take its next step,
\* whatever the state of the jobs in flight.
C9_JobsLeaveLoopAlone ==
    /\ [][JobStep =>
             UNCHANGED <<pc, running, current_day, current_dir, seq>>]_vars
    /\ [](pc \in {"check", "sleep"} => (running /\ LoopEnabled))

\* C9, its case: one job has failed, another is inside its merge, and the
\* loop has stored a frame in the bucket that followed theirs.
C9_Witness ==
    /\ Len(jobs) = 2
    /\ jobs[1].pc = "failed"
    /\ InMerge(2)
    /\ running
    /\ pc = "sleep"
    /\ stored = 1

\* C10: a delivery of the daily video that fails does not keep the job from
\* its merge: whatever the outcome of step 2, the job goes on to step 3.
C10_DeliveryFailureStillMerges ==
    [][\A j \in JobIds :
          (jobs[j].pc = "send_daily" /\ jobs'[j].pc # "send_daily")
          => jobs'[j].pc = "merge"]_vars

\* The call of send_file_telegram at line 159, and the one at line 162, made
\* by job j for a file of size mb, whatever its outcome.
SendDaily(j, mb) ==
    SendDailySkip(j, mb) \/ SendDailyOk(j, mb) \/ SendDailyFail(j, mb)

SendMaster(j, mb) ==
    SendMasterSkip(j, mb) \/ SendMasterOk(j, mb) \/ SendMasterFail(j, mb)

\* The notifier is not configured, or a file of size mb exceeds the ceiling.
SkipCase(mb) == bot_token = "" \/ chat_id = "" \/ mb > MAX_TELEGRAM_MB

\* C11: when the notifier is not configured (token or chat id missing) or the
\* file exceeds the ceiling, a call of the delivery operation is not one that
\* reaches the transport (neither a call that sends nor one that raises): it
\* returns, and the job goes on to its next step, the merge after the daily
\* video and the end of the job after master.
C11_SkipWithoutTransport ==
    [][\A j \in JobIds : \A mb \in Sizes :
          SkipCase(mb) =>
              /\ ~SendDailyOk(j, mb) /\ ~SendDailyFail(j, mb)
              /\ ~SendMasterOk(j, mb) /\ ~SendMasterFail(j, mb)
              /\ SendDaily(j, mb) => jobs'[j].pc = "merge"
              /\ SendMaster(j, mb) => jobs'[j].pc = "done"]_vars

\* C11, its case: a token is set and the chat id is not, and a job has gone
\* through both of its deliveries to its end.
C11_Witness ==
    /\ bot_token # ""
    /\ chat_id = ""
    /\ \E j \in JobIds : jobs[j].pc = "done"

\* C12: when open_cam fails during start, the failure ends the process: the
\* process does not stay alive serving status queries, whether or not the
\* command interface is configured.
C12_StartFailureEndsProcess == pc = "dead" => main # "polling"

\* The capture loop has left its cycle: run() has ended after its finally
\* clause, or the process has ended with the loop in its cycle.
LoopLeft == pc = "stopped" \/ (~Alive /\ pc \in {"check", "sleep"})

\* C13: whenever the capture loop has left Running, by an external
\* cancellation or by an error, the running flag is false and the capture
\* device has been released.
C13_StoppedReleasesDevice == LoopLeft => (~running /\ cap = "released")

\* C14: while the process lives, a failure inside one cycle of the loop (the
\* new day's directory cannot be created, the finalizer cannot be spawned)
\* is caught at the cycle's boundary: the loop stays in its cycle, running.
C14_CycleFailuresAreCaught ==
    [][(Alive /\ Alive' /\ pc \in {"check", "sleep"})
          => (pc' \in {"check", "sleep"} /\ running')]_vars

\* C15: the daily video of a date, once created, is never written again: a
\* finalizer job that writes <day>.mp4 finds no such file, for any sequence
\* of dates.
C15_DailyVideoWrittenOnce ==
    [][\A j \in JobIds :
          MakeVideoOk(j) => daily[jobs[j].day] = "absent"]_vars

\* The step of job() a position belongs to: 1 build the daily video, 2
\* deliver it, 3 merge it into master, 4 deliver master, 5 returned; 0 is
\* the except clause.
StepOf(p) ==
    CASE p = "make_video" -> 1
      [] p = "send_daily" -> 2
      [] p \in {"merge", "cp", "cp_run", "ts_master", "ts_day", "join",
                "cleanup", "replace"} -> 3
      [] p = "send_master" -> 4
      [] p = "done" -> 5
      [] p = "failed" -> 0

\* C16: a finalizer job goes through its steps in the order build, deliver
\* daily, merge, deliver master, one at a time and none twice; a step is
\* left for the next one or, failing, for the end of the job, after which the
\* job does nothing more.  The daily video is delivered only once built, and
\* master only after this job's merge has returned.
C16_StepsInOrderFailureAborts ==
    [][\A j \in JobIds :
          /\ jobs[j].pc \in {"done", "failed"} => jobs'[j] = jobs[j]
          /\ jobs'[j].pc # "failed" =>
                 \/ StepOf(jobs'[j].pc) = StepOf(jobs[j].pc)
                 \/ StepOf(jobs'[j].pc) = StepOf(jobs[j].pc) + 1
          /\ jobs'[j].pc = "send_daily" => daily'[jobs[j].day] = "ok"
          /\ (jobs[j].pc # "send_master" /\ jobs'[j].pc = "send_master") =>
                 /\ InMerge(j)
                 /\ master'.st = "ok"
                 /\ jobs[j].day \in mergedDays']_vars

\* C16, its case: one job has gone through its four steps, another has
\* failed in its merge after building its daily video, which master lacks.
C16_Witness ==
    /\ Len(jobs) = 2
    /\ jobs[1].pc = "done"
    /\ jobs[2].pc = "failed"
    /\ daily[jobs[2].day] = "ok"
    /\ jobs[2].day \notin mergedDays

\* C17: when the date changes while the loop is in its paced wait, the tick
\* of the wait that ends next leaves the wait, and the finalizer for the
\* bucket is dispatched before another tick: no two ticks end on a changed
\* date without the dispatch between them, and the loop does not stay in the
\* wait after one.  SleepTick stands for every interval, so the bound does
\* not depend on it.
C17_DispatchWithinOneTick ==
    /\ lateTicks <= 1
    /\ pc = "sleep" => lateTicks = 0

\* C17, its case: the date changed during the wait, the tick after the
\* change has ended the wait, and the dispatch is the loop's next step.
C17_Witness ==
    /\ lateTicks = 1
    /\ pc = "check"
    /\ Rolled
    /\ stored = 1

\* C18: a finalizer job keeps the date and the directory it was dispatched
\* with, and the daily video it writes is the one of the bucket that was
\* current at its dispatch, encoded from that bucket's directory, whatever
\* bucket the loop holds by then.
C18_JobUsesItsOwnBucket ==
    [][/\ \A j \in JobIds :
             jobs'[j].day = jobs[j].day /\ jobs'[j].dir = jobs[j].dir
       /\ daily' # daily =>
             \E j \in JobIds :
                 /\ jobs[j].pc = "make_video"
                 /\ jobs'[j].pc = "send_daily"
                 /\ 1 \in frames[superseded[j]]
                 /\ daily' = [daily EXCEPT ![superseded[j]] = "ok"]]_vars

\* C18, its case: the job of day 1 has built its video after two further
\* rollovers, while the loop holds the bucket of day 3 with a frame in it.
C18_Witness ==
    /\ Len(jobs) = 2
    /\ jobs[1].pc = "send_daily"
    /\ jobs[2].pc = "make_video"
    /\ current_day = 3
    /\ 1 \in frames[3]

\* C19: the current bucket's date never decreases: a new bucket is created
\* only for a date strictly later than the current bucket's.
C19_BucketDateNeverDecreases ==
    [][current_day' # current_day => current_day' > current_day]_vars

\* C20: every capture writes to a path in which no earlier frame is stored,
\* over any sequence of captures, rollovers and restarts.  Stated of the runs
\* in which the date has never moved backward (C19 is about the others).
C20_FramesNeverOverwritten ==
    [][(clockMonotone /\ FrameStored)
          => SeqAt180 \notin frames[current_dir']]_vars

====
